---- MODULE Spec2Model ----
(***************************************************************************)
(* The "secret" command tree of cli/cmd/secrets.go: four cobra             *)
(* sub-commands (create, inspect, list, delete), the option structs their  *)
(* flags are bound to, the single blocking call each handler makes to the  *)
(* SecretsService, and what each handler writes to standard output.        *)
(* Strings are sequences of one-character strings, so that printing        *)
(* (fmt.Println, fmt.Fprintf, text/tabwriter) is modelled by what it does. *)
(***************************************************************************)
EXTENDS Integers, Sequences, FiniteSets, TLC

VARIABLES createOpts, deleteOpts, pc, inv, nInv, ctxCancelled,
          newCtx, newErr, calls, resp, stdout, ret

vars == <<createOpts, deleteOpts, pc, inv, nInv, ctxCancelled,
          newCtx, newErr, calls, resp, stdout, ret>>

(* ------------------------------ bounds --------------------------------- *)
\* invocations executed in one behaviour
MaxInv == 2
\* positional arguments on one command line
MaxArgs == 2
\* secrets in one ListSecrets answer
MaxList == 2

(* --------------------------- characters -------------------------------- *)
TAB == "\t"
NL == "\n"
SP == " "

Max(a, b) == IF a >= b THEN a ELSE b

Rep(c, n) == [k \in 1..n |-> c]

SeqsUpTo(S, n) == UNION {[1..k -> S] : k \in 0..n}

\* zero or one occurrence of a flag on a command line
Opt(S) == {<<>>} \cup {<<v>> : v \in S}

(* ------------------------------ values --------------------------------- *)
Names == {<<"n">>, <<"m">>}

\* the positional arguments of a command line: up to MaxArgs names, no name
\* twice in a row
ArgLists ==
  {a \in SeqsUpTo(Names, MaxArgs) : \A k \in 1..(Len(a) - 1) : a[k] # a[k + 1]}
FlagVals == {<<"x">>}
Ids == {<<"i", "1">>, <<"i", "2">>}

NoErr == "nil"
ErrArgs == "accepts 1 arg(s)"
ErrClient == "client.New failed"
ErrCanceled == "context canceled"
ErrJSON == "json: error"
SvcErrs == {"not found", "access denied"}

CmdContext == "cmd.Context()"
Background == "context.Background()"
NoContext == "none"

Secret(id, name, desc) == [ID |-> id, Name |-> name, Description |-> desc]
NoSecret == Secret(<<>>, <<>>, <<>>)

\* secrets the service may hold: a plain one, one with an empty description
\* and an ID wider than the minimal column, and two whose free text holds a
\* line break or a tab
SecretPool ==
  { Secret(<<"a">>, <<"n">>, <<"d">>),
    Secret(Rep("k", 18), <<"m">>, <<>>),
    Secret(<<"c">>, <<"n">>, <<"d", NL, "e">>),
    Secret(<<"c">>, <<"n", TAB, "o">>, <<"d">>) }

(* ----------------------- printing (lines 152-165) ---------------------- *)
\* tabwriter.NewWriter(out, 20, 1, 3, ' ', 0)
MinWidth == 20
TabWidth == 1
Padding == 3
PadChar == SP

\* strings.Join(elems, sep)
RECURSIVE Join(_, _)
Join(elems, sep) ==
  IF elems = <<>> THEN <<>>
  ELSE IF Len(elems) = 1 THEN elems[1]
  ELSE elems[1] \o sep \o Join(Tail(elems), sep)

\* the pieces of s between occurrences of the character sep
RECURSIVE Split(_, _)
Split(s, sep) ==
  IF \A k \in 1..Len(s) : s[k] # sep THEN <<s>>
  ELSE LET k == CHOOSE x \in 1..Len(s) :
                  s[x] = sep /\ \A y \in 1..(x - 1) : s[y] # sep
       IN <<SubSeq(s, 1, k - 1)>> \o Split(SubSeq(s, k + 1, Len(s)), sep)

\* text/tabwriter: the cells of every line of the buffered text; a cell is
\* tab-terminated, the text after the last tab of a line is a trailing cell
TwLines(text) == [i \in 1..Len(Split(text, NL)) |-> Split(Split(text, NL)[i], TAB)]

\* tab-terminated cells of a line
NTerm(line) == Len(line) - 1

\* a column block: the consecutive lines around line i with a tab-terminated
\* cell in column j
RECURSIVE BlockLo(_, _, _)
BlockLo(lines, i, j) ==
  IF i > 1 /\ NTerm(lines[i - 1]) >= j THEN BlockLo(lines, i - 1, j) ELSE i

RECURSIVE BlockHi(_, _, _)
BlockHi(lines, i, j) ==
  IF i < Len(lines) /\ NTerm(lines[i + 1]) >= j THEN BlockHi(lines, i + 1, j) ELSE i

RECURSIVE MaxCell(_, _, _, _)
MaxCell(lines, lo, hi, j) ==
  IF lo > hi THEN MinWidth
  ELSE Max(Len(lines[lo][j]) + Padding, MaxCell(lines, lo + 1, hi, j))

\* width of column j in the block that holds line i
ColWidth(lines, i, j) == MaxCell(lines, BlockLo(lines, i, j), BlockHi(lines, i, j), j)

\* one formatted line: every tab-terminated cell padded to its column width,
\* the trailing cell as it is
RECURSIVE TwCells(_, _, _)
TwCells(lines, i, j) ==
  IF j > NTerm(lines[i]) THEN lines[i][j]
  ELSE lines[i][j] \o Rep(PadChar, ColWidth(lines, i, j) - Len(lines[i][j]))
       \o TwCells(lines, i, j + 1)

\* Writer.Flush: the formatted lines, a newline after each but the last
\* (the text after the last newline of the input)
TwFlush(text) ==
  LET lines == TwLines(text)
  IN Join([i \in 1..Len(lines) |-> TwCells(lines, i, 1)], <<NL>>)

\* fmt.Println(s) / fmt.Fprintln(w, s)
Println(s) == s \o <<NL>>

Headers == << <<"I", "D">>, <<"N", "A", "M", "E">>,
              <<"D", "E", "S", "C", "R", "I", "P", "T", "I", "O", "N">> >>

\* fmt.Fprintf(w, "%s\t%s\t%s\n", secret.ID, secret.Name, secret.Description)
Row(secret) ==
  secret.ID \o <<TAB>> \o secret.Name \o <<TAB>> \o secret.Description \o <<NL>>

\* the loop of printList: one Fprintf per secret, in slice order
RECURSIVE Rows(_)
Rows(secrets) ==
  IF secrets = <<>> THEN <<>> ELSE Row(Head(secrets)) \o Rows(Tail(secrets))

\* printSection: header line, then the printer, then Flush
printSection(body, headers) == TwFlush(Println(Join(headers, <<TAB>>)) \o body)

printList(secrets) == printSection(Rows(secrets), Headers)

(* ------------------ command lines and flag parsing --------------------- *)
\* a parsed command line: the verb, its positional arguments, and the
\* occurrences of the flags the verb defines
Invocation(verb, args, u, p, d, rec) ==
  [verb |-> verb, args |-> args, u |-> u, p |-> p, d |-> d, rec |-> rec]

NoInvocation == Invocation("none", <<>>, <<>>, <<>>, <<>>, <<>>)

Invocations ==
  {Invocation("create", a, u, p, d, <<>>) :
      a \in ArgLists, u \in Opt(FlagVals),
      p \in Opt(FlagVals), d \in Opt(FlagVals)}
  \cup {Invocation(v, a, <<>>, <<>>, <<>>, <<>>) :
          v \in {"inspect", "list"}, a \in ArgLists}
  \cup {Invocation("delete", a, <<>>, <<>>, <<>>, r) :
          a \in ArgLists, r \in Opt(BOOLEAN)}

\* createSecretOptions{} / StringVarP(..., "", ...): the defaults
CreateDefaults == [Username |-> <<>>, Password |-> <<>>, Description |-> <<>>]

\* deleteSecretOptions{} / BoolVar(..., false, ...): the default
DeleteDefaults == [recover |-> FALSE]

\* a flag bound to a variable: parsing stores the value of an occurrence and
\* leaves the variable as it is when the flag does not occur
FlagSet(cur, occ) == IF occ = <<>> THEN cur ELSE occ[Len(occ)]

\* the flags of create, bound to opts.Username, opts.Password, opts.Description
ParseCreateFlags(opts, i) ==
  IF i.verb = "create"
  THEN [Username |-> FlagSet(opts.Username, i.u),
        Password |-> FlagSet(opts.Password, i.p),
        Description |-> FlagSet(opts.Description, i.d)]
  ELSE opts

\* the flag of delete, bound to opts.recover
ParseDeleteFlags(opts, i) ==
  IF i.verb = "delete" THEN [recover |-> FlagSet(opts.recover, i.rec)] ELSE opts

\* Args: cobra.ExactArgs(1) on create, inspect and delete; list sets no Args
\* and a sub-command without Args takes any arguments
ExactArgs == [create |-> 1, inspect |-> 1, delete |-> 1]

ValidateArgs(verb, args) ==
  IF verb \in DOMAIN ExactArgs THEN Len(args) = ExactArgs[verb] ELSE TRUE

(* ------------------------- the remote calls ---------------------------- *)
Call(op, ctx, name, username, password, description, recover) ==
  [op |-> op, ctx |-> ctx, name |-> name, username |-> username,
   password |-> password, description |-> description, recover |-> recover]

\* the context handed to client.New
ClientCtx == CmdContext

\* a handler that calls the service under a context of its own
CallCtxBackground == Background

\* the context handed to the SecretsService method
CallCtx == CmdContext

\* secrets.NewSecret(name, opts.Username, opts.Password, opts.Description),
\* c.SecretsService().CreateSecret(cmd.Context(), secret)
createRequest(args, opts) ==
  Call("CreateSecret", CallCtx, args[1], opts.Username, opts.Password,
       opts.Description, FALSE)

\* c.SecretsService().InspectSecret(cmd.Context(), args[0])
inspectRequest(args) ==
  Call("InspectSecret", CallCtx, args[1], <<>>, <<>>, <<>>, FALSE)

\* c.SecretsService().ListSecrets(cmd.Context())
listRequest(args) ==
  Call("ListSecrets", CallCtx, <<>>, <<>>, <<>>, <<>>, FALSE)

\* c.SecretsService().DeleteSecret(cmd.Context(), args[0], opts.recover)
deleteRequest(args, opts) ==
  Call("DeleteSecret", CallCtx, args[1], <<>>, <<>>, <<>>, opts.recover)

\* a handler that issues its call a second time
RemoteCallsRetry(verb, args, copts, dopts) ==
  CASE verb = "create" -> <<createRequest(args, copts), createRequest(args, copts)>>
    [] verb = "inspect" -> <<inspectRequest(args), inspectRequest(args)>>
    [] verb = "list" -> <<listRequest(args), listRequest(args)>>
    [] verb = "delete" -> <<deleteRequest(args, dopts), deleteRequest(args, dopts)>>

\* the calls a handler issues once its client is built
RemoteCalls(verb, args, copts, dopts) ==
  CASE verb = "create" -> <<createRequest(args, copts)>>
    [] verb = "inspect" -> <<inspectRequest(args)>>
    [] verb = "list" -> <<listRequest(args)>>
    [] verb = "delete" -> <<deleteRequest(args, dopts)>>

(* ----------------------- the service's answers ------------------------- *)
Resp(err, id, secret, list) ==
  [err |-> err, id |-> id, secret |-> secret, list |-> list]

NoResp == Resp(NoErr, <<>>, NoSecret, <<>>)

Failure(e) == Resp(e, <<>>, NoSecret, <<>>)

\* what a SecretsService method may answer: any service error or a result
\* of the method's type; a call whose context is cancelled is aborted
ServiceOutcomes(call, cancelled) ==
  IF call.ctx = CmdContext /\ cancelled THEN {Failure(ErrCanceled)}
  ELSE {Failure(e) : e \in SvcErrs} \cup
       CASE call.op = "CreateSecret" -> {Resp(NoErr, id, NoSecret, <<>>) : id \in Ids}
         [] call.op = "InspectSecret" -> {Resp(NoErr, <<>>, s, <<>>) : s \in SecretPool}
         [] call.op = "ListSecrets" ->
              {Resp(NoErr, <<>>, NoSecret, l) : l \in SeqsUpTo(SecretPool, MaxList)}
         [] call.op = "DeleteSecret" -> {NoResp}

\* secret.ToJSON(): the JSON text of the secret
ToJSON(secret) == <<"{">> \o secret.ID \o <<"}">>

(* ------------------- what the handlers do on return -------------------- *)
Result(out, err) == [out |-> out, ret |-> err]

\* a create handler that also prints a field of the secret it sent
createResultLeak(r, secret) ==
  IF r.err # NoErr THEN Result(<<>>, r.err)
  ELSE Result(Println(r.id \o secret.password), NoErr)

\* createSecret, lines 69-73, with the secret built at line 67 in scope
createResult(r, secret) ==
  IF r.err # NoErr THEN Result(<<>>, r.err) ELSE Result(Println(r.id), NoErr)

\* inspectSecret, lines 94-102
inspectResult(r, jsonErr) ==
  IF r.err # NoErr THEN Result(<<>>, r.err)
  ELSE IF jsonErr # NoErr THEN Result(<<>>, jsonErr)
  ELSE Result(Println(ToJSON(r.secret)), NoErr)

\* a list handler that prints before it looks at the error
listResultPartial(r) == Result(printList(r.list), r.err)

\* listSecrets, lines 119-123
listResult(r) ==
  IF r.err # NoErr THEN Result(<<>>, r.err) ELSE Result(printList(r.list), NoErr)

\* a delete handler that reports what it did
deleteResultEcho(r) == Result(Println(<<"o", "k">>), r.err)

\* deleteSecret, line 145: the method's error is the handler's
deleteResult(r) == Result(<<>>, r.err)

HandlerResult(verb, r, jsonErr, call) ==
  CASE verb = "create" -> createResult(r, call)
    [] verb = "inspect" -> inspectResult(r, jsonErr)
    [] verb = "list" -> listResult(r)
    [] verb = "delete" -> deleteResult(r)

(* ----------------------------- the machine ----------------------------- *)
\* SecretCommand(): a fresh command tree, no invocation yet
Init ==
  /\ createOpts = CreateDefaults
  /\ deleteOpts = DeleteDefaults
  /\ pc = "idle"
  /\ inv = NoInvocation
  /\ nInv = 0
  /\ ctxCancelled = FALSE
  /\ newCtx = NoContext
  /\ newErr = NoErr
  /\ calls = <<>>
  /\ resp = NoResp
  /\ stdout = <<>>
  /\ ret = NoErr

\* SecretCommand() called again: a new tree with new option structs
SecretCommand ==
  /\ pc = "done"
  /\ createOpts' = CreateDefaults
  /\ deleteOpts' = DeleteDefaults
  /\ pc' = "idle"
  /\ inv' = NoInvocation
  /\ ctxCancelled' = FALSE
  /\ newCtx' = NoContext
  /\ newErr' = NoErr
  /\ calls' = <<>>
  /\ resp' = NoResp
  /\ stdout' = <<>>
  /\ ret' = NoErr
  /\ UNCHANGED nInv

\* one command line executed on the tree, up to the blocking call: cobra
\* parses the flags into the bound variables, validates the positional
\* arguments, and runs the handler, which builds the client and calls the
\* service
Execute ==
  /\ pc \in {"idle", "done"}
  /\ nInv < MaxInv
  /\ \E i \in Invocations, ne \in {NoErr, ErrClient} :
       LET copts == ParseCreateFlags(createOpts, i)
           dopts == ParseDeleteFlags(deleteOpts, i)
       IN /\ createOpts' = copts
          /\ deleteOpts' = dopts
          /\ inv' = i
          /\ nInv' = nInv + 1
          /\ ctxCancelled' = FALSE
          /\ resp' = NoResp
          /\ stdout' = <<>>
          /\ IF ~ValidateArgs(i.verb, i.args)
             THEN /\ ne = NoErr
                  /\ newCtx' = NoContext
                  /\ newErr' = NoErr
                  /\ calls' = <<>>
                  /\ ret' = ErrArgs
                  /\ pc' = "done"
             ELSE /\ newCtx' = ClientCtx
                  /\ newErr' = ne
                  /\ IF ne # NoErr
                     THEN /\ calls' = <<>>
                          /\ ret' = ne
                          /\ pc' = "done"
                     ELSE /\ calls' = RemoteCalls(i.verb, i.args, copts, dopts)
                          /\ ret' = NoErr
                          /\ pc' = "inflight"

\* the invocation's context is cancelled while the call is in flight
Cancel ==
  /\ pc = "inflight"
  /\ ~ctxCancelled
  /\ ctxCancelled' = TRUE
  /\ UNCHANGED <<createOpts, deleteOpts, pc, inv, nInv, newCtx, newErr,
                 calls, resp, stdout, ret>>

\* the blocking call returns and the handler runs to its end
ServiceReturn ==
  /\ pc = "inflight"
  /\ \E r \in ServiceOutcomes(calls[Len(calls)], ctxCancelled),
        je \in {NoErr, ErrJSON} :
       /\ je = ErrJSON => (inv.verb = "inspect" /\ r.err = NoErr)
       /\ resp' = r
       /\ stdout' = HandlerResult(inv.verb, r, je, calls[Len(calls)]).out
       /\ ret' = HandlerResult(inv.verb, r, je, calls[Len(calls)]).ret
  /\ pc' = "done"
  /\ UNCHANGED <<createOpts, deleteOpts, inv, nInv, ctxCancelled, newCtx,
                 newErr, calls>>

Next == SecretCommand \/ Execute \/ Cancel \/ ServiceReturn

Spec == Init /\ [][Next]_vars

\* the return of a call that was aborted by the cancellation of its context
AbortedReturn == ctxCancelled /\ ServiceReturn

\* an aborted call returns; nothing is assumed of a call that is not aborted
FairSpec == Spec /\ WF_vars(AbortedReturn)

(* ------------------------------ the claims ----------------------------- *)
\* the arity the command-line surface gives each verb
ClaimArity == [create |-> 1, inspect |-> 1, list |-> 0, delete |-> 1]

OpOf == [create |-> "CreateSecret", inspect |-> "InspectSecret",
         list |-> "ListSecrets", delete |-> "DeleteSecret"]

Invoked == pc \in {"inflight", "done"}

ArgsMatch == Len(inv.args) = ClaimArity[inv.verb]

\* the service call of this invocation has returned
Returned == pc = "done" /\ calls # <<>>

\* the value a flag gives on its own command line, "" when it is absent
Given(occ, default) == IF occ = <<>> THEN default ELSE occ[Len(occ)]

\* C1 as stated: every finished invocation with valid arguments has invoked
\* exactly one remote operation, the one matching its verb.
C1_ExactlyOneCall ==
  (pc = "done" /\ ArgsMatch) =>
     (Len(calls) = 1 /\ calls[1].op = OpOf[inv.verb])

\* C1 amended: with valid arguments, an invocation invokes at most one remote
\* operation: exactly one, matching the verb, once client construction has
\* succeeded, and none when client construction fails; the call is not
\* repeated, whatever the service returns.
C1_OneCallUnlessNoClient ==
  /\ Len(calls) <= 1
  /\ (Invoked /\ ArgsMatch) =>
       IF newErr = NoErr
       THEN Len(calls) = 1 /\ calls[1].op = OpOf[inv.verb]
       ELSE calls = <<>>

C1_Witness ==
  /\ pc = "done" /\ ArgsMatch /\ inv.verb = "delete"
  /\ Len(calls) = 1 /\ resp.err \in SvcErrs

\* C2 as stated: an invocation whose positional-argument count differs from
\* the verb's arity (one for create, inspect, delete; zero for list) is
\* rejected with an error and invokes no remote operation.
C2_MismatchRejected ==
  (Invoked /\ ~ArgsMatch) => (calls = <<>> /\ pc = "done" /\ ret = ErrArgs)

\* C3: when the service call of any verb returns an error, nothing is written
\* to standard output and the invocation returns that same error.
C3_ErrorNoOutput ==
  (Returned /\ resp.err # NoErr) => (stdout = <<>> /\ ret = resp.err)

C3_Witness ==
  /\ Returned /\ inv.verb = "list" /\ resp.err \in SvcErrs
  /\ stdout = <<>> /\ ret = resp.err

\* C4 as stated: the CreateSecret request of a create invocation carries the
\* name given, the value of each flag given on that invocation, and the empty
\* string for each flag not given.
C4_CreateRequestFields ==
  (inv.verb = "create" /\ calls # <<>>) =>
     /\ calls[1].name = inv.args[1]
     /\ calls[1].username = Given(inv.u, <<>>)
     /\ calls[1].password = Given(inv.p, <<>>)
     /\ calls[1].description = Given(inv.d, <<>>)

\* C5 as stated: the DeleteSecret request of a delete invocation carries the
\* single positional argument as name, recover = TRUE when --recover was given
\* and recover = FALSE when it was absent.
C5_DeleteRequestFields ==
  (inv.verb = "delete" /\ calls # <<>>) =>
     /\ calls[1].name = inv.args[1]
     /\ inv.rec = <<TRUE>> => calls[1].recover
     /\ inv.rec = <<>> => ~calls[1].recover

\* a printed row shows the three fields in column order, padding between them
Shows(line, a, b, c) ==
  \E w0, w1 \in 1..Len(line) : line = a \o Rep(SP, w0) \o b \o Rep(SP, w1) \o c

\* C6 as stated: when ListSecrets returns n secrets, list writes the header
\* row ID, NAME, DESCRIPTION and then exactly n rows, row i showing the ID,
\* name and description of the i-th secret.
C6_HeaderThenRows ==
  (Returned /\ inv.verb = "list" /\ resp.err = NoErr) =>
     LET printed == Split(stdout, NL)
         n == Len(resp.list)
     IN /\ Len(printed) = n + 2
        /\ printed[n + 2] = <<>>
        /\ Shows(printed[1], Headers[1], Headers[2], Headers[3])
        /\ \A i \in 1..n :
             Shows(printed[i + 1], resp.list[i].ID, resp.list[i].Name,
                   resp.list[i].Description)

\* no field of the secret holds a character that text/tabwriter treats as a
\* cell or line end
Plain(secret) ==
  \A f \in {secret.ID, secret.Name, secret.Description} :
     \A k \in 1..Len(f) : f[k] \notin {TAB, NL}

\* the rows of C6 for answers whose fields hold no tab and no line break
ListRowsWhenPlain ==
  (Returned /\ inv.verb = "list" /\ resp.err = NoErr
     /\ \A i \in 1..Len(resp.list) : Plain(resp.list[i])) =>
     LET printed == Split(stdout, NL)
         n == Len(resp.list)
     IN /\ Len(printed) = n + 2
        /\ printed[n + 2] = <<>>
        /\ Shows(printed[1], Headers[1], Headers[2], Headers[3])
        /\ \A i \in 1..n :
             Shows(printed[i + 1], resp.list[i].ID, resp.list[i].Name,
                   resp.list[i].Description)

\* the option struct of one verb is neither written nor read by another verb
VerbOptionsApart ==
  [][/\ inv'.verb # "create" => createOpts' \in {createOpts, CreateDefaults}
     /\ inv'.verb # "delete" => deleteOpts' \in {deleteOpts, DeleteDefaults}]_vars

\* C7: a create whose CreateSecret call succeeds writes the returned
\* identifier as one line and nothing else, so its output is a function of
\* the identifier alone, whatever username, password or description was sent.
C7_CreatePrintsIdOnly ==
  (Returned /\ inv.verb = "create" /\ resp.err = NoErr) =>
     (stdout = resp.id \o <<NL>> /\ ret = NoErr)

C7_Witness ==
  /\ Returned /\ inv.verb = "create" /\ resp.err = NoErr
  /\ calls[1].password # <<>> /\ calls[1].username # <<>>
  /\ stdout = resp.id \o <<NL>>

\* C8: a delete whose DeleteSecret call succeeds writes nothing to standard
\* output and returns no error.
C8_DeleteSilent ==
  (Returned /\ inv.verb = "delete" /\ resp.err = NoErr) =>
     (stdout = <<>> /\ ret = NoErr)

C8_Witness ==
  /\ Returned /\ inv.verb = "delete" /\ resp.err = NoErr
  /\ calls[1].recover /\ stdout = <<>> /\ ret = NoErr

\* C9: every handler hands the invocation's own context to client
\* construction and to the remote call, and an invocation whose context is
\* cancelled while its call is in flight ends with an error and with nothing
\* written to standard output.
C9_CancelAborts ==
  /\ [](newCtx # NoContext => newCtx = CmdContext)
  /\ [](\A k \in 1..Len(calls) : calls[k].ctx = CmdContext)
  /\ [](pc = "done" /\ ctxCancelled => ret # NoErr /\ stdout = <<>>)
  /\ \A k \in 1..MaxInv :
       (nInv = k /\ pc = "inflight" /\ ctxCancelled)
         ~> (nInv = k /\ pc = "done" /\ ret # NoErr /\ stdout = <<>>)

C9_Witness ==
  /\ pc = "done" /\ ctxCancelled /\ inv.verb = "create"
  /\ ret = ErrCanceled /\ stdout = <<>>

\* C10 as stated: whatever was executed before on the same command tree, the
\* request an invocation builds is the one its own arguments and flags
\* determine, the one a tree that has executed nothing would build.
C10_RequestFromOwnFlags ==
  calls # <<>> =>
     calls = RemoteCalls(inv.verb, inv.args,
                         ParseCreateFlags(CreateDefaults, inv),
                         ParseDeleteFlags(DeleteDefaults, inv))

====
